---- MODULE Spec2Model ----
(***************************************************************************)
(* Authentication and role authorization of the MotionMatrix backend:      *)
(* the user table, the login and refresh endpoints, the bearer-token       *)
(* dependency chain and the repository operations that change a principal, *)
(* with the startup connection to the database, the process settings and   *)
(* the statuses of a leave request.                                        *)
(*                                                                         *)
(* Python values are modelled as records tagged with their type, so that   *)
(* a call that binds an argument of the wrong type to a parameter behaves  *)
(* as it does in Python (an AttributeError at the first attribute access). *)
(* Strings that the code transforms (emails) are sequences of characters;  *)
(* strings it only compares are TLA+ strings, and the text of a message is *)
(* the sequence of its pieces (one piece for a literal, several for a      *)
(* formatted string).  Time is counted in whole days.                      *)
(***************************************************************************)
EXTENDS Integers, Sequences, FiniteSets, TLC

VARIABLES
    store,        \* the users table: user id -> row, or None when no row
    now,          \* the wall clock, in days
    resp,         \* the last operation: its name, its arguments, its outcome
    roleSet,      \* history: the role update_role last changed a principal to
    request,      \* the requests in flight: where each is, and the session it got
    session,      \* the Session objects: open or closed, with or without pending changes
    conn,         \* the call of connect_to_database: its arguments, its attempts, its result
    config        \* the environment, the Settings cache and what the first call returned

vars == <<store, now, resp, roleSet, request, session, conn, config>>

----------------------------------------------------------------------------
(* Bounds of the model *)

MaxEmailLen == 2      \* longest email string a client sends
MaxTime == 2          \* last day the clock reaches
MaxRetries == 5       \* largest max_retries a caller passes (the default is 5)
MaxChain == 5         \* longest history of statuses kept for a leave request
MaxInstances == 3     \* most Settings objects constructed in one process

UserIds == {"u1", "u2"}        \* primary keys (opaque UUIDs)
Requests == {"r1", "r2"}       \* requests that can be in flight together
SessionObjects == {"s1", "s2", "s3"}   \* identities a Session object can have
Chars == {"a", "A", " "}       \* characters of an email string
Passwords == {"pw1", "pw2"}    \* plaintext passwords a client sends

----------------------------------------------------------------------------
(* Python values *)

None == [type |-> "NoneType"]
Str(s) == [type |-> "str", val |-> s]
Session == [type |-> "Session"]

Return(v) == [kind |-> "return", value |-> v]
Raise(e) == [kind |-> "raise", exc |-> e]

\* A builtin exception: its class and its text.
BuiltinError(cls, msg) == [cls |-> cls, message |-> msg]

AttributeError(typeName, attr) ==
    BuiltinError("AttributeError", <<typeName, " object has no attribute ", attr>>)

----------------------------------------------------------------------------
(* Strings the code transforms: str.lower, str.strip, str.join *)

LowerChar(c) == IF c = "A" THEN "a" ELSE c

lower(s) == [i \in 1..Len(s) |-> LowerChar(s[i])]

RECURSIVE lstrip(_)
lstrip(s) == IF s # <<>> /\ Head(s) = " " THEN lstrip(Tail(s)) ELSE s

RECURSIVE rstrip(_)
rstrip(s) ==
    IF s # <<>> /\ s[Len(s)] = " " THEN rstrip(SubSeq(s, 1, Len(s) - 1)) ELSE s

strip(s) == rstrip(lstrip(s))

\* sep.join(parts), as the sequence of the joined pieces
RECURSIVE join(_, _)
join(sep, parts) ==
    IF parts = <<>> THEN <<>>
    ELSE IF Len(parts) = 1 THEN <<parts[1]>>
    ELSE <<parts[1], sep>> \o join(sep, Tail(parts))

\* The email strings a client can send, and the ones a row can hold.
RawEmails == UNION {[1..n -> Chars] : n \in 1..MaxEmailLen}

\* pydantic's EmailStr accepts an address after trimming it; an address has
\* no inner whitespace and is not empty.  (The fixed "@domain" part of the
\* addresses is left out of the strings.)
EmailStrAccepts(s) ==
    /\ strip(s) # <<>>
    /\ \A i \in 1..Len(strip(s)) : strip(s)[i] # " "

StoredEmails == {strip(lower(s)) : s \in {r \in RawEmails : EmailStrAccepts(r)}}

----------------------------------------------------------------------------
(* utils/enums.py *)

UserRole == <<"ADMIN", "OWNER", "MANAGER", "FLOOR_MANAGER", "WORKER">>
UserRoleValues == {UserRole[i] : i \in DOMAIN UserRole}

\* UserRole.get_hierarchical_roles with one level of the hierarchy only
get_hierarchical_roles_one_level(role) ==
    LET hierarchy ==
            ("ADMIN" :> <<"ADMIN", "OWNER">>)
            @@ ("OWNER" :> <<"OWNER", "MANAGER">>)
            @@ ("MANAGER" :> <<"MANAGER", "FLOOR_MANAGER">>)
            @@ ("FLOOR_MANAGER" :> <<"FLOOR_MANAGER", "WORKER">>)
            @@ ("WORKER" :> <<"WORKER">>)
    IN  IF role \in DOMAIN hierarchy THEN hierarchy[role] ELSE <<>>

\* UserRole.get_hierarchical_roles: hierarchy.get(role, [])
get_hierarchical_roles(role) ==
    LET hierarchy ==
            ("ADMIN" :> <<"ADMIN", "OWNER", "MANAGER", "FLOOR_MANAGER", "WORKER">>)
            @@ ("OWNER" :> <<"OWNER", "MANAGER", "FLOOR_MANAGER", "WORKER">>)
            @@ ("MANAGER" :> <<"MANAGER", "FLOOR_MANAGER", "WORKER">>)
            @@ ("FLOOR_MANAGER" :> <<"FLOOR_MANAGER", "WORKER">>)
            @@ ("WORKER" :> <<"WORKER">>)
    IN  IF role \in DOMAIN hierarchy THEN hierarchy[role] ELSE <<>>

\* x in xs, for a list xs
In(x, xs) == \E i \in DOMAIN xs : xs[i] = x

\* UserRole.can_manage without the test that the two roles differ
can_manage_or_equal(manager_role, target_role) ==
    LET manageable_roles == get_hierarchical_roles(manager_role)
    IN  In(target_role, manageable_roles)

\* UserRole.can_manage
can_manage(manager_role, target_role) ==
    LET manageable_roles == get_hierarchical_roles(manager_role)
    IN  In(target_role, manageable_roles) /\ manager_role # target_role

UserStatus == <<"ACTIVE", "INACTIVE", "PENDING_PASSWORD_CHANGE", "SUSPENDED", "LOCKED">>
UserStatusValues == {UserStatus[i] : i \in DOMAIN UserStatus}

\* UserStatus.active_statuses
active_statuses == <<"ACTIVE", "PENDING_PASSWORD_CHANGE">>

\* UserStatus.is_active
UserStatus_is_active(status) == In(status, active_statuses)

LeaveStatus == <<"PENDING", "APPROVED", "REJECTED", "CANCELLED">>
LeaveStatusValues == {LeaveStatus[i] : i \in DOMAIN LeaveStatus}

\* LeaveStatus.final_statuses
final_statuses == <<"APPROVED", "REJECTED", "CANCELLED">>

\* LeaveStatus.is_final
is_final(status) == In(status, final_statuses)

\* can_transition_to with a cancelled request open to a new submission
can_transition_to_reopening(from_status, to_status) ==
    LET valid_transitions ==
            ("PENDING" :> <<"APPROVED", "REJECTED", "CANCELLED">>)
            @@ ("APPROVED" :> <<"CANCELLED">>)
            @@ ("REJECTED" :> <<>>)
            @@ ("CANCELLED" :> <<"PENDING">>)
    IN  In(to_status, IF from_status \in DOMAIN valid_transitions
                      THEN valid_transitions[from_status] ELSE <<>>)

\* LeaveStatus.can_transition_to: valid_transitions.get(from_status, [])
can_transition_to(from_status, to_status) ==
    LET valid_transitions ==
            ("PENDING" :> <<"APPROVED", "REJECTED", "CANCELLED">>)
            @@ ("APPROVED" :> <<"CANCELLED">>)
            @@ ("REJECTED" :> <<>>)
            @@ ("CANCELLED" :> <<>>)
    IN  In(to_status, IF from_status \in DOMAIN valid_transitions
                      THEN valid_transitions[from_status] ELSE <<>>)

APIEndpoint ==
    {"register_user", "delete_user", "update_user", "view_users", "create_post", "delete_post"}

----------------------------------------------------------------------------
(* core/exceptions.py *)

MotionMatrixException(cls, status_code, error_code, message, details) ==
    [cls |-> cls, status_code |-> status_code, error_code |-> error_code,
     message |-> <<message>>, details |-> details]

NoDetails == [k \in {} |-> k]

AuthenticationException(message) ==
    MotionMatrixException("AuthenticationException", 401, "AUTHENTICATION_FAILED",
                          message, NoDetails)

TokenExpiredException(message) ==
    MotionMatrixException("TokenExpiredException", 401, "TOKEN_EXPIRED", message, NoDetails)

InvalidTokenException(message) ==
    MotionMatrixException("InvalidTokenException", 401, "INVALID_TOKEN", message, NoDetails)

AuthorizationException(message, details) ==
    MotionMatrixException("AuthorizationException", 403, "AUTHORIZATION_FAILED",
                          message, details)

\* fastapi.HTTPException as the code raises it: a status and a detail text.
HTTPException(status_code, detail) ==
    [cls |-> "HTTPException", status_code |-> status_code, detail |-> detail]

NotFoundException(message, details) ==
    MotionMatrixException("NotFoundException", 404, "RESOURCE_NOT_FOUND", message, details)

ValidationException(message, details) ==
    MotionMatrixException("ValidationException", 422, "VALIDATION_FAILED", message, details)

DuplicateException(message, details) ==
    MotionMatrixException("DuplicateException", 409, "DUPLICATE_RESOURCE", message, details)

\* The classes that derive from MotionMatrixException
MotionMatrixClasses ==
    {"MotionMatrixException", "AuthenticationException", "TokenExpiredException",
     "InvalidTokenException", "AuthorizationException", "NotFoundException",
     "ValidationException", "DuplicateException"}

\* fastapi.exceptions.RequestValidationError: the list exc.errors() returns
RequestValidationError(errors) == [cls |-> "RequestValidationError", errors |-> errors]

JSONResponse(status_code, content) == [status_code |-> status_code, content |-> content]

\* MotionMatrixException.to_dict: details only when there are some
to_dict(exc) ==
    IF exc.details # NoDetails
    THEN [error_code |-> exc.error_code, message |-> exc.message, details |-> exc.details]
    ELSE [error_code |-> exc.error_code, message |-> exc.message]

\* a handler that answers every application error with one status
motion_matrix_exception_handler_bad_request(exc) ==
    JSONResponse(400, to_dict(exc))

motion_matrix_exception_handler(exc) ==
    JSONResponse(exc.status_code, to_dict(exc))

validation_exception_handler(exc) ==
    LET errors == [i \in DOMAIN exc.errors |->
                      [field |-> join(".", exc.errors[i].loc), message |-> exc.errors[i].msg,
                       type |-> exc.errors[i].type]]
    IN  JSONResponse(422, [error_code |-> "VALIDATION_ERROR",
                           message |-> <<"Request validation failed">>,
                           details |-> [errors |-> errors]])

http_exception_handler(exc) ==
    LET error_codes == (400 :> "BAD_REQUEST") @@ (401 :> "UNAUTHORIZED")
                       @@ (403 :> "FORBIDDEN") @@ (404 :> "NOT_FOUND")
                       @@ (405 :> "METHOD_NOT_ALLOWED") @@ (500 :> "INTERNAL_SERVER_ERROR")
        error_code == IF exc.status_code \in DOMAIN error_codes
                      THEN error_codes[exc.status_code] ELSE "HTTP_ERROR"
    IN  JSONResponse(exc.status_code, [error_code |-> error_code, message |-> exc.detail])

unhandled_exception_handler(exc) ==
    JSONResponse(500, [error_code |-> "INTERNAL_SERVER_ERROR",
                       message |-> <<"An unexpected error occurred. Please try again later.">>])

\* register_exception_handlers: the handler the application runs for an
\* exception that leaves a route, chosen by the class of the exception.
exception_handler(exc) ==
    IF exc.cls \in MotionMatrixClasses THEN motion_matrix_exception_handler(exc)
    ELSE IF exc.cls = "RequestValidationError" THEN validation_exception_handler(exc)
    ELSE IF exc.cls = "HTTPException" THEN http_exception_handler(exc)
    ELSE unhandled_exception_handler(exc)

\* The response of a route declared with status_code: its value on a
\* return, the translation of the exception on a raise.
response(status_code, out) ==
    IF out.kind = "return" THEN JSONResponse(status_code, out.value)
    ELSE exception_handler(out.exc)

----------------------------------------------------------------------------
(* core/security.py is not part of the sources at hand: the token codec    *)
(* and the password hash are modelled from the specification (4.2, 4.3).   *)

RefreshTokenExpireDays == 7

hash_password(plain) == <<"hash", plain>>

verify_password(plain, hashed) == hashed = hash_password(plain)

EmptyDict == [k \in {} |-> k]

\* issueRefreshToken: {sub, exp = now + ttl}, signed with the process key
create_refresh_token(data) ==
    [form |-> "jwt", signed |-> TRUE,
     claims |-> [sub |-> data.sub, exp |-> now + RefreshTokenExpireDays]]

\* decode: malformed or wrongly signed input fails with InvalidToken, a
\* valid signature with exp in the past fails with TokenExpired.
decode_access_token(token) ==
    IF token.form # "jwt" \/ ~token.signed
    THEN Raise(InvalidTokenException("Invalid authentication token"))
    ELSE IF token.claims # EmptyDict /\ token.claims.exp < now
    THEN Raise(TokenExpiredException("Authentication token has expired"))
    ELSE Return(token.claims)

\* The token strings a client can present.
ClaimSets == [sub : StoredEmails, exp : 0..MaxTime]

Tokens ==
    {[form |-> "jwt", signed |-> TRUE, claims |-> c] : c \in ClaimSets}
    \cup {[form |-> "jwt", signed |-> FALSE, claims |-> c] :
             c \in {k \in ClaimSets : k.exp = MaxTime}}
    \cup {[form |-> "jwt", signed |-> TRUE, claims |-> EmptyDict]}
    \cup {[form |-> "garbage"]}

----------------------------------------------------------------------------
(* schemas/user.py, schemas/token.py *)

ValidationError(field) == BuiltinError("ValidationError", <<field>>)

\* Exception classes that `except ValueError` catches.
ValueErrorClasses == {"ValueError", "ValidationError"}

normalize_email(v) == strip(lower(v))

\* UserLogin(email=..., password=...)
UserLogin(email, password) ==
    IF ~EmailStrAccepts(email) THEN Raise(ValidationError("email"))
    ELSE Return([type |-> "UserLogin",
                 email |-> Str(normalize_email(strip(email))),
                 password |-> password])

\* Token(access_token=..., token_type=...)
Token(access_token, token_type) ==
    [type |-> "Token", access_token |-> access_token, token_type |-> token_type]

\* TokenPayload(sub=..., role=..., email=..., exp=...)
TokenPayload(sub, role, email, exp) ==
    [type |-> "TokenPayload", sub |-> sub, role |-> role, email |-> email, exp |-> exp]

----------------------------------------------------------------------------
(* models/user.py, repositories *)

User(id, email, hashed_password, role, status) ==
    [type |-> "User", id |-> id, email |-> email, hashed_password |-> hashed_password,
     role |-> role, status |-> status]

\* BaseRepository.get
get(db, id) == store[id]

\* UserRepository.get_by_email(self, db, email)
get_by_email(db, email) ==
    IF email.type # "str" THEN Raise(AttributeError(email.type, "lower"))
    ELSE IF db.type # "Session" THEN Raise(AttributeError(db.type, "query"))
    ELSE LET e == strip(lower(email.val))
             found == {u \in UserIds : store[u] # None /\ store[u].email = e}
         IN  Return(IF found = {} THEN None ELSE store[CHOOSE u \in found : TRUE])

\* UserRepository.email_exists(self, db, email)
email_exists(db, email) ==
    IF email.type # "str" THEN Raise(AttributeError(email.type, "lower"))
    ELSE IF db.type # "Session" THEN Raise(AttributeError(db.type, "query"))
    ELSE LET e == strip(lower(email.val))
         IN  Return(\E u \in UserIds : store[u] # None /\ store[u].email = e)

\* A member of an enum class, as a caller passes it.  Every enum of
\* utils/enums.py derives from str: a member compares as its value.
Member(cls, value) == [type |-> cls, value |-> value]

EnumClasses == {"UserRole", "UserStatus"}

\* The text of a str or of an enum member
StrOf(v) == IF v.type = "str" THEN v.val ELSE v.value

ValueError(msg) == BuiltinError("ValueError", msg)

\* User.validate_email that trims the address and keeps its case
validate_email_keeping_case(email) ==
    IF email = <<>> THEN Raise(ValueError(<<"Email address is required">>))
    ELSE LET e == strip(email)
         IN  IF e = <<>> THEN Raise(ValueError(<<"Invalid email format: ", e>>))
             ELSE Return(e)

\* User.validate_email.  The characters "@" and "." are not represented:
\* every string that is not blank stands for an address that has them, and
\* no string here comes near 255 characters.
validate_email(email) ==
    IF email = <<>> THEN Raise(ValueError(<<"Email address is required">>))
    ELSE LET e == strip(lower(email))
         IN  IF e = <<>> THEN Raise(ValueError(<<"Invalid email format: ", e>>))
             ELSE Return(e)

\* User.validate_role
validate_role(role) ==
    IF role = None \/ role = Str("") THEN Raise(ValueError(<<"User role is required">>))
    ELSE IF role.type = "UserRole" THEN Return(role.value)
    ELSE IF StrOf(role) \notin UserRoleValues
    THEN Raise(ValueError(<<"Invalid role '", StrOf(role), "'. Must be one of: ",
                            join(", ", UserRole)>>))
    ELSE Return(StrOf(role))

\* User.validate_status
validate_status(status) ==
    IF status = None \/ status = Str("") THEN Raise(ValueError(<<"User status is required">>))
    ELSE IF status.type = "UserStatus" THEN Return(status.value)
    ELSE IF StrOf(status) \notin UserStatusValues
    THEN Raise(ValueError(<<"Invalid status '", StrOf(status), "'. Must be one of: ",
                            join(", ", UserStatus)>>))
    ELSE Return(StrOf(status))

\* User.__table_args__ and nullable=False: the constraints the database
\* checks on a row.  A string column that was never set is the empty string
\* here; the database refuses the one as the other.
check_valid_email_format(row) ==
    /\ row.email # <<>>
    /\ \A i \in DOMAIN row.email : row.email[i] # " "

check_valid_role(row) == row.role \in UserRoleValues

\* a users table declared without the constraint on status
check_valid_status_not_declared(row) == TRUE

check_valid_status(row) == row.status \in UserStatusValues

idx_users_email_unique(table) ==
    \A i, j \in UserIds :
        (i # j /\ table[i] # None /\ table[j] # None) => table[i].email # table[j].email

IntegrityError == BuiltinError("IntegrityError", <<"violates constraint">>)

\* db.commit() of a unit of work that leaves the table as `table`: the
\* database stores it, or refuses it with an IntegrityError.
commit(db, table) ==
    IF /\ \A id \in UserIds :
             table[id] # None =>
                 /\ check_valid_email_format(table[id])
                 /\ check_valid_role(table[id])
                 /\ check_valid_status(table[id])
       /\ idx_users_email_unique(table)
    THEN Return(table)
    ELSE Raise(IntegrityError)

\* setattr(db_obj, field, value) for the items of a dict, in their order;
\* the validators of the model run on email, role and status.
RECURSIVE set_fields(_, _)
set_fields(db_obj, items) ==
    IF items = <<>> THEN Return(db_obj)
    ELSE LET field == items[1][1]
             value == items[1][2]
             validated == CASE field = "email" -> validate_email(value)
                            [] field = "role" -> validate_role(value)
                            [] field = "status" -> validate_status(value)
                            [] OTHER -> Return(value)
         IN  IF field \notin DOMAIN db_obj THEN set_fields(db_obj, Tail(items))
             ELSE IF validated.kind = "raise" THEN validated
             ELSE set_fields([db_obj EXCEPT ![field] = validated.value], Tail(items))

\* The repository operations that write: the outcome of the call and the
\* table after it.  A call that raises leaves nothing behind: its pending
\* changes are rolled back, by the repository (except SQLAlchemyError) or by
\* get_db when the exception ends the request.
Outcome(out, table) == [out |-> out, store |-> table]

\* BaseRepository.create; id is the key that default=uuid.uuid4 gives the row
create(db, obj_in, id) ==
    LET db_obj == set_fields(User(id, <<>>, <<>>, "WORKER", "ACTIVE"), obj_in)
    IN  IF db_obj.kind = "raise" THEN Outcome(db_obj, store)
        ELSE IF store[id] # None THEN Outcome(Raise(IntegrityError), store)
        ELSE LET committed == commit(db, [store EXCEPT ![id] = db_obj.value])
             IN  IF committed.kind = "raise" THEN Outcome(committed, store)
                 ELSE Outcome(Return(db_obj.value), committed.value)

\* self.model(**obj_in) for each dict of a list, in their order
RECURSIVE construct_all(_, _)
construct_all(objects_in, ids) ==
    IF objects_in = <<>> THEN Return(<<>>)
    ELSE LET db_obj == set_fields(User(ids[1], <<>>, <<>>, "WORKER", "ACTIVE"), objects_in[1])
             others == construct_all(Tail(objects_in), Tail(ids))
         IN  IF db_obj.kind = "raise" THEN db_obj
             ELSE IF others.kind = "raise" THEN others
             ELSE Return(<<db_obj.value>> \o others.value)

\* create_multi that commits after each record (a list of one or two)
create_multi_one_by_one(db, objects_in, ids) ==
    LET first == create(db, objects_in[1], ids[1])
    IN  IF first.out.kind = "raise" THEN first
        ELSE IF Len(objects_in) = 1 THEN Outcome(Return(<<first.out.value>>), first.store)
        ELSE LET db_obj == set_fields(User(ids[2], <<>>, <<>>, "WORKER", "ACTIVE"),
                                      objects_in[2])
             IN  IF db_obj.kind = "raise" THEN Outcome(db_obj, first.store)
                 ELSE LET committed ==
                              commit(db, [first.store EXCEPT ![ids[2]] = db_obj.value])
                      IN  IF committed.kind = "raise" THEN Outcome(committed, first.store)
                          ELSE Outcome(Return(<<first.out.value, db_obj.value>>),
                                       committed.value)

\* BaseRepository.create_multi; ids are the keys the new rows get
create_multi(db, objects_in, ids) ==
    LET db_objects == construct_all(objects_in, ids)
    IN  IF db_objects.kind = "raise" THEN Outcome(db_objects, store)
        ELSE LET table == [id \in UserIds |->
                              IF \E i \in DOMAIN ids : ids[i] = id
                              THEN db_objects.value[CHOOSE i \in DOMAIN ids : ids[i] = id]
                              ELSE store[id]]
                 committed == commit(db, table)
             IN  IF committed.kind = "raise" THEN Outcome(committed, store)
                 ELSE Outcome(Return(db_objects.value), committed.value)

\* BaseRepository.update
update(db, db_obj, obj_in) ==
    LET changed == set_fields(db_obj, obj_in)
    IN  IF changed.kind = "raise" THEN Outcome(changed, store)
        ELSE LET committed == commit(db, [store EXCEPT ![db_obj.id] = changed.value])
             IN  IF committed.kind = "raise" THEN Outcome(committed, store)
                 ELSE Outcome(Return(changed.value), committed.value)

\* BaseRepository.update_by_id
update_by_id(db, id, obj_in) ==
    LET db_obj == get(db, id)
    IN  IF db_obj = None THEN Outcome(Return(None), store)
        ELSE update(db, db_obj, obj_in)

\* get_manageable_users that keeps the role of the manager in the list
get_manageable_users_with_own_role(db, manager_role) ==
    IF manager_role.type \notin EnumClasses
    THEN Raise(AttributeError(manager_role.type, "value"))
    ELSE LET role_values == get_hierarchical_roles(StrOf(manager_role))
         IN  Return({store[id] : id \in {u \in UserIds :
                        /\ store[u] # None
                        /\ In(store[u].role, role_values)
                        /\ In(store[u].status, active_statuses)}})

\* UserRepository.get_manageable_users, with skip and limit at their
\* defaults (0 and 100): the rows the query selects.  The query has no
\* ORDER BY, so the result is the set of its rows.
get_manageable_users(db, manager_role) ==
    IF manager_role.type \notin EnumClasses
    THEN Raise(AttributeError(manager_role.type, "value"))
    ELSE LET hierarchy == get_hierarchical_roles(StrOf(manager_role))
             role_values == SelectSeq(hierarchy, LAMBDA r : r # StrOf(manager_role))
         IN  Return({store[id] : id \in {u \in UserIds :
                        /\ store[u] # None
                        /\ In(store[u].role, role_values)
                        /\ In(store[u].status, active_statuses)}})

\* UserRepository.update_status
update_status(db, user_id, status) ==
    LET user == get(db, user_id)
    IN  IF user = None THEN Outcome(Return(None), store)
        ELSE IF status.type \notin EnumClasses
        THEN Outcome(Raise(AttributeError(status.type, "value")), store)
        ELSE LET changed == set_fields(user, <<<<"status", Str(status.value)>>>>)
             IN  IF changed.kind = "raise" THEN Outcome(changed, store)
                 ELSE LET committed == commit(db, [store EXCEPT ![user_id] = changed.value])
                      IN  IF committed.kind = "raise" THEN Outcome(committed, store)
                          ELSE Outcome(Return(changed.value), committed.value)

\* update_role that never commits the new value
update_role_uncommitted(db, user_id, role) ==
    Outcome(Return(get(db, user_id)), store)

\* UserRepository.update_role
update_role(db, user_id, role) ==
    LET user == get(db, user_id)
    IN  IF user = None THEN Outcome(Return(None), store)
        ELSE IF role.type \notin EnumClasses
        THEN Outcome(Raise(AttributeError(role.type, "value")), store)
        ELSE LET changed == set_fields(user, <<<<"role", Str(role.value)>>>>)
             IN  IF changed.kind = "raise" THEN Outcome(changed, store)
                 ELSE LET committed == commit(db, [store EXCEPT ![user_id] = changed.value])
                      IN  IF committed.kind = "raise" THEN Outcome(committed, store)
                          ELSE Outcome(Return(changed.value), committed.value)

\* UserRepository.bulk_update_status: one UPDATE statement, which runs no
\* validator of the model, then the commit
bulk_update_status(db, user_ids, status) ==
    IF status.type \notin EnumClasses
    THEN Outcome(Raise(AttributeError(status.type, "value")), store)
    ELSE LET matched == {id \in user_ids : store[id] # None}
             table == [id \in UserIds |->
                          IF id \in matched THEN [store[id] EXCEPT !.status = status.value]
                          ELSE store[id]]
             committed == commit(db, table)
         IN  IF committed.kind = "raise" THEN Outcome(committed, store)
             ELSE Outcome(Return(Cardinality(matched)), committed.value)

\* User.is_active
is_active(self) == UserStatus_is_active(self.status)

\* User.can_manage_user
can_manage_user(self, target_user) == can_manage(self.role, target_user.role)

\* BaseRepository.delete: the table after the call
delete(db, id) ==
    IF get(db, id) = None THEN store
    ELSE [store EXCEPT ![id] = None]

----------------------------------------------------------------------------
(* services/auth_service.py *)

ExtensionDays == 7

auth_service_login(user_login, db) ==
    LET looked == get_by_email(user_login.email, db)
    IN  IF looked.kind = "raise" THEN looked
        ELSE LET user == looked.value
             IN  IF user = None
                 THEN Raise(AuthenticationException("Invalid email or password"))
                 ELSE IF ~verify_password(user_login.password, user.hashed_password)
                 THEN Raise(AuthenticationException("Invalid email or password"))
                 ELSE Return(Token(create_refresh_token([sub |-> user.email]), "bearer"))

\* the exchange with the new expiry counted from the time of the exchange
auth_service_validate_token_sliding(token, db) ==
    LET decoded == decode_access_token(token.refresh_token)
    IN  IF decoded.kind = "raise" THEN decoded
        ELSE IF decoded.value = EmptyDict
        THEN Raise(InvalidTokenException("Token is invalid or expired"))
        ELSE LET payload == decoded.value
                 dt == now + ExtensionDays
                 looked == get_by_email(db, Str(payload.sub))
             IN  IF looked.kind = "raise" THEN looked
                 ELSE LET user == looked.value
                      IN  IF user = None
                          THEN Raise(AttributeError("NoneType", "id"))
                          ELSE Return(TokenPayload(user.id, user.role, user.email, dt))

\* the exchange reporting every decode failure as one error
auth_service_validate_token_one_error(token, db) ==
    LET decoded == decode_access_token(token.refresh_token)
    IN  IF decoded.kind = "raise" \/ decoded.value = EmptyDict
        THEN Raise(InvalidTokenException("Token is invalid or expired"))
        ELSE LET payload == decoded.value
                 dt == payload.exp + ExtensionDays
                 looked == get_by_email(db, Str(payload.sub))
             IN  IF looked.kind = "raise" THEN looked
                 ELSE LET user == looked.value
                      IN  IF user = None
                          THEN Raise(AttributeError("NoneType", "id"))
                          ELSE Return(TokenPayload(user.id, user.role, user.email, dt))

auth_service_validate_token(token, db) ==
    LET decoded == decode_access_token(token.refresh_token)
    IN  IF decoded.kind = "raise" THEN decoded
        ELSE IF decoded.value = EmptyDict
        THEN Raise(InvalidTokenException("Token is invalid or expired"))
        ELSE LET payload == decoded.value
                 dt == payload.exp + ExtensionDays
                 looked == get_by_email(db, Str(payload.sub))
             IN  IF looked.kind = "raise" THEN looked
                 ELSE LET user == looked.value
                      IN  IF user = None
                          THEN Raise(AttributeError("NoneType", "id"))
                          ELSE Return(TokenPayload(user.id, user.role, user.email, dt))

AUTHORIZATION_MAP ==
    [e \in {"register_user", "delete_user"} |-> <<"ADMIN">>]

\* a lookup that lets ADMIN into every endpoint the map does not list
get_authorized_roles_admin_by_default(endpoint) ==
    IF endpoint \in DOMAIN AUTHORIZATION_MAP THEN AUTHORIZATION_MAP[endpoint] ELSE <<"ADMIN">>

\* AUTHORIZATION_MAP.get(endpoint, [])
get_authorized_roles(endpoint) ==
    IF endpoint \in DOMAIN AUTHORIZATION_MAP THEN AUTHORIZATION_MAP[endpoint] ELSE <<>>

\* the check reading the allowlist through the role hierarchy
is_authorized_by_hierarchy(user_role, endpoint) ==
    LET authorized_roles == get_authorized_roles(endpoint)
    IN  \E i \in DOMAIN authorized_roles :
            \E j \in DOMAIN get_hierarchical_roles(authorized_roles[i]) :
                get_hierarchical_roles(authorized_roles[i])[j] = user_role

is_authorized(user_role, endpoint) ==
    LET authorized_roles == get_authorized_roles(endpoint)
    IN  \E i \in DOMAIN authorized_roles : authorized_roles[i] = user_role

get_current_user(token, db) ==
    LET decoded == decode_access_token(token)
    IN  IF decoded.kind = "raise" THEN decoded
        ELSE IF decoded.value = EmptyDict
        THEN Raise(InvalidTokenException("Token is invalid or expired"))
        ELSE get_by_email(Str(decoded.value.sub), db)

\* The checker require_authorization(endpoint) returns, applied to the user
\* that get_current_user resolved.
authorization_checker(endpoint, current_user) ==
    IF current_user.type # "User"
    THEN Raise(AttributeError(current_user.type, "role"))
    ELSE IF ~is_authorized(current_user.role, endpoint)
    THEN Raise(HTTPException(403,
                 <<"Access denied. Required roles: ",
                   join(", ", get_authorized_roles(endpoint)),
                   ". Your role: ", current_user.role>>))
    ELSE Return(current_user)

\* Depends(require_authorization(endpoint)) on a request with a bearer token
require_authorization(endpoint, token, db) ==
    LET current == get_current_user(token, db)
    IN  IF current.kind = "raise" THEN current
        ELSE authorization_checker(endpoint, current.value)

----------------------------------------------------------------------------
(* api/v1/login.py *)

\* a login that looks the row up by the email as the client typed it
login_as_typed(username, password, db) ==
    LET found == {u \in UserIds : store[u] # None /\ store[u].email = username}
    IN  IF found = {} \/ ~EmailStrAccepts(username)
        THEN Raise(AuthenticationException("Invalid email or password"))
        ELSE LET user == store[CHOOSE u \in found : TRUE]
             IN  IF ~verify_password(password, user.hashed_password)
                 THEN Raise(AuthenticationException("Invalid email or password"))
                 ELSE Return(Token(create_refresh_token([sub |-> user.email]), "bearer"))

\* POST /login
login(username, password, db) ==
    LET user_in == UserLogin(username, password)
    IN  IF user_in.kind = "raise" THEN Raise(HTTPException(400, user_in.exc.message))
        ELSE LET user == auth_service_login(user_in.value, db)
             IN  IF user.kind = "raise" /\ user.exc.cls \in ValueErrorClasses
                 THEN Raise(HTTPException(400, user.exc.message))
                 ELSE user

\* POST /refresh
refresh(old_token, db) ==
    LET payload == auth_service_validate_token(old_token, db)
    IN  IF payload.kind = "raise" /\ payload.exc.cls \in ValueErrorClasses
        THEN Raise(HTTPException(400, payload.exc.message))
        ELSE payload

RefreshToken(refresh_token) == [type |-> "RefreshToken", refresh_token |-> refresh_token]

----------------------------------------------------------------------------
(* services/user_service.py is not part of the sources at hand: the two   *)
(* services are modelled from the specification (3, 7).                    *)

\* UserCreate(email=..., password=..., role=...), validated
UserCreate(email, password, role) ==
    [type |-> "UserCreate", email |-> email, password |-> password, role |-> role]

\* Registration creates the principal; an email that is taken is a
\* DuplicateResource.
create_user(db, user_in, id) ==
    IF email_exists(db, Str(user_in.email)).value
    THEN Outcome(Raise(DuplicateException("Email address already registered", NoDetails)),
                 store)
    ELSE create(db, <<<<"email", user_in.email>>,
                      <<"hashed_password", hash_password(user_in.password)>>,
                      <<"role", Str(user_in.role)>>>>, id)

\* All principals, or the error of the database when the query fails
get_all_users_service(db, fault) ==
    IF fault # None THEN Raise(fault)
    ELSE Return({store[id] : id \in {u \in UserIds : store[u] # None}})

----------------------------------------------------------------------------
(* api/v1/userCreate.py, api/v1/getAllUsers.py *)

\* The states a request to an endpoint under
\* Depends(require_authorization(endpoint)) has been in when it ends.
request_states(endpoint, token, db) ==
    LET decoded == decode_access_token(token)
        current == get_current_user(token, db)
        checked == require_authorization(endpoint, token, db)
    IN  <<"Unauthenticated", "TokenPresented">>
        \o (IF decoded.kind = "return" /\ decoded.value # EmptyDict
            THEN <<"TokenDecoded">> ELSE <<>>)
        \o (IF current.kind = "return" THEN <<"PrincipalResolved">> ELSE <<>>)
        \o (IF current.kind = "return" /\ checked.kind = "return" THEN <<"Authorized">>
            ELSE IF current.kind = "return" /\ checked.exc.cls = "HTTPException"
            THEN <<"Denied">> ELSE <<>>)

\* POST /register; id is the key a created row would get
register(token, user_in, db, id) ==
    LET current_user == require_authorization("register_user", token, db)
    IN  IF current_user.kind = "raise" THEN Outcome(current_user, store)
        ELSE LET user == create_user(db, user_in, id)
             IN  IF user.out.kind = "raise" /\ user.out.exc.cls \in ValueErrorClasses
                 THEN Outcome(Raise(HTTPException(400, user.out.exc.message)), user.store)
                 ELSE user

\* GET /users
get_all_users(db, fault) ==
    LET users == get_all_users_service(db, fault)
    IN  IF users.kind = "raise"
        THEN Raise(HTTPException(500, <<"Error retrieving users: ", users.exc.message>>))
        ELSE users

----------------------------------------------------------------------------
(* core/config.py is not part of the sources at hand: get_settings is     *)
(* modelled from what tests/test_config.py requires of it.                 *)

\* Settings(): the values of the environment at the time of construction;
\* id tells one object from another
Settings(env, id) ==
    [type |-> "Settings", id |-> id, DB_USER |-> env.DB_USER, DB_PASSWORD |-> env.DB_PASSWORD]

\* get_settings constructing a Settings object at every call
get_settings_uncached(cfg) ==
    [out |-> Settings(cfg.env, cfg.constructed + 1),
     config |-> [cfg EXCEPT !.constructed = @ + 1]]

\* get_settings(): the cached object, constructed at the first call
get_settings(cfg) ==
    IF cfg.cache # None THEN [out |-> cfg.cache, config |-> cfg]
    ELSE LET made == Settings(cfg.env, cfg.constructed + 1)
         IN  [out |-> made,
              config |-> [cfg EXCEPT !.cache = made, !.constructed = @ + 1]]

----------------------------------------------------------------------------
(* core/database.py *)

NoSession == "none"

\* a Session object: whether it is open, whether it holds changes that are
\* not committed, whether rollback() ran on it
NewSession == [open |-> TRUE, pending |-> FALSE, rolled_back |-> FALSE]

\* a factory that hands every caller the one session of the module
SessionLocal_shared == {"s1"}

\* SessionLocal(): a new Session object, distinct from every object a
\* request refers to
SessionLocal == {s \in SessionObjects : \A r \in Requests : request[r].db # s}

rollback(db) == [db EXCEPT !.pending = FALSE, !.rolled_back = TRUE]

close(db) == [db EXCEPT !.open = FALSE, !.pending = FALSE]

\* get_db with the close in the branch of the normal return only
get_db_exit_no_finally(db, exc) ==
    IF exc # None THEN [db |-> rollback(db), raised |-> exc]
    ELSE [db |-> close(db), raised |-> None]

\* get_db after its yield: exc is the exception the request threw into the
\* generator, or None; the result is the session and what get_db raises
get_db_exit(db, exc) ==
    IF exc # None THEN [db |-> close(rollback(db)), raised |-> exc]
    ELSE [db |-> close(db), raised |-> None]

\* connect_to_database before it is called
NotConnecting ==
    [pc |-> "idle", max_retries |-> 0, base_delay |-> 0, attempt |-> 0,
     outcomes |-> <<>>, sleeps |-> <<>>, result |-> None]

\* connect_to_database(max_retries, base_delay) entering its loop
connect_to_database(max_retries, base_delay) ==
    [pc |-> "loop", max_retries |-> max_retries, base_delay |-> base_delay, attempt |-> 1,
     outcomes |-> <<>>, sleeps |-> <<>>, result |-> None]

\* What engine.connect() and the query of one attempt come to
AttemptOutcomes == {"connected", "OperationalError", "Exception"}

\* the loop retrying after every error
connect_attempt_retrying_every_error(c, outcome) ==
    IF c.attempt > c.max_retries
    THEN [c EXCEPT !.pc = "done", !.result = FALSE]
    ELSE LET tried == [c EXCEPT !.outcomes = Append(@, outcome)]
         IN  IF outcome = "connected"
             THEN [tried EXCEPT !.pc = "done", !.result = TRUE]
             ELSE LET delay == c.base_delay * (2 ^ (c.attempt - 1))
                  IN  IF c.attempt < c.max_retries
                      THEN [tried EXCEPT !.sleeps = Append(@, delay),
                                         !.attempt = @ + 1]
                      ELSE [tried EXCEPT !.pc = "done", !.result = FALSE]

\* One turn of the loop of connect_to_database: the attempt and what
\* follows it; past the last turn, the return False after the loop
connect_attempt(c, outcome) ==
    IF c.attempt > c.max_retries
    THEN [c EXCEPT !.pc = "done", !.result = FALSE]
    ELSE LET tried == [c EXCEPT !.outcomes = Append(@, outcome)]
         IN  IF outcome = "connected"
             THEN [tried EXCEPT !.pc = "done", !.result = TRUE]
             ELSE IF outcome = "OperationalError"
             THEN LET delay == c.base_delay * (2 ^ (c.attempt - 1))
                  IN  IF c.attempt < c.max_retries
                      THEN [tried EXCEPT !.sleeps = Append(@, delay),
                                         !.attempt = @ + 1]
                      ELSE [tried EXCEPT !.pc = "done", !.result = FALSE]
             ELSE [tried EXCEPT !.pc = "done", !.result = FALSE]

----------------------------------------------------------------------------
(* The state machine *)

Rows(id) ==
    {User(id, e, hash_password(p), r, "ACTIVE") :
        e \in StoredEmails, p \in Passwords, r \in UserRoleValues}

\* Tables the unique index on email allows.
Tables ==
    {t \in [UserIds -> UNION {Rows(id) : id \in UserIds} \cup {None}] :
        /\ \A id \in UserIds : t[id] # None => t[id].id = id
        /\ \A i, j \in UserIds :
              (i # j /\ t[i] # None /\ t[j] # None) => t[i].email # t[j].email}

NoRole == "none"

\* uuid.uuid4(): a key that no row has, while the table has room
uuid4 ==
    CHOOSE id \in UserIds : store[id] = None \/ \A u \in UserIds : store[u] # None

\* The bodies a client sends to POST /register
UserCreates == {UserCreate(<<"a">>, "pw1", "WORKER"), UserCreate(<<"a", "a">>, "pw1", "ADMIN")}

\* The errors of the database under a query
DatabaseFaults == {BuiltinError("OperationalError", <<"connection to server failed">>)}

\* The exceptions a route raises
RouteExceptions ==
    {HTTPException(400, <<"Bad request">>), BuiltinError("RuntimeError", <<"fault">>)}

Details == {NoDetails, [field |-> "email"]}

RaisedExceptions ==
    {AuthenticationException(m) : m \in {"Authentication failed", "Invalid email or password"}}
    \cup {TokenExpiredException("Authentication token has expired"),
          InvalidTokenException("Invalid authentication token")}
    \cup {AuthorizationException("You don't have permission to perform this action", d) :
             d \in Details}
    \cup {NotFoundException("Resource not found", d) : d \in Details}
    \cup {ValidationException("Validation failed", d) : d \in Details}
    \cup {DuplicateException("Resource already exists", d) : d \in Details}
    \cup {MotionMatrixException("MotionMatrixException", c, "INTERNAL_SERVER_ERROR",
                                "An unexpected error occurred", NoDetails) : c \in {500, 503}}
    \cup {HTTPException(c, <<"detail">>) : c \in {400, 401, 403, 404, 405, 418, 500}}
    \cup {RequestValidationError(<<[loc |-> <<"body", "email">>, msg |-> "field required",
                                    type |-> "value_error.missing"]>>)}
    \cup RouteExceptions
    \cup DatabaseFaults

\* The values callers pass for a leave status: the members, their plain
\* strings, and values that are no leave status
LeaveStatusArgs ==
    {Member("LeaveStatus", v) : v \in LeaveStatusValues}
    \cup {Str(v) : v \in LeaveStatusValues}
    \cup {Member("UserStatus", "ACTIVE"), Str("DRAFT")}

\* The values of the environment variables the settings read
EnvValues ==
    [DB_USER |-> {"testuser", "motion", "postgres"},
     DB_PASSWORD |-> {"testpass123", "secret", "changeme"}]

\* The base delays callers pass, in seconds
BaseDelays == {1, 2, 3}

\* The values callers pass for a role and for a status
RoleArgs ==
    {Member("UserRole", r) : r \in {"ADMIN", "MANAGER", "WORKER"}}
    \cup {Str("BOSS"), Member("UserStatus", "LOCKED")}

StatusArgs ==
    {Member("UserStatus", "ACTIVE"), Member("UserStatus", "SUSPENDED"),
     Str("SUSPENDED"), Member("UserRole", "ADMIN")}

\* The arguments of the role functions: the roles, and a value that is none
RoleValues == UserRoleValues \cup {"ACTIVE"}

\* The email strings callers of the repository pass
EmailArgs == {<<"a">>, <<"A">>, <<" ", "A">>, <<"a", "A">>, <<" ">>}

\* What a caller of create adds to the email and the password
CreateArgs ==
    {<<>>,
     <<<<"role", Member("UserRole", "ADMIN")>>>>,
     <<<<"role", Str("BOSS")>>>>,
     <<<<"status", Str("SUSPENDED")>>>>,
     <<<<"status", Str("BOGUS")>>>>}

\* The values callers pass for the role of a manager
ManagerRoleArgs == {Member("UserRole", r) : r \in UserRoleValues} \cup {Str("ADMIN")}

\* Tables of principals of every role and status, each with an email of
\* its own
ManagedEmails == ("u1" :> <<"a">>) @@ ("u2" :> <<"a", "a">>)

ManagedTables ==
    {t \in [UserIds -> {None} \cup
                UNION {{User(id, ManagedEmails[id], hash_password("pw1"), r, st) :
                           r \in UserRoleValues, st \in UserStatusValues} : id \in UserIds}] :
        \A id \in UserIds : t[id] # None => t[id].id = id}

\* The dicts of a list a caller of create_multi passes
MultiArgs ==
    {<<<<"email", e>>, <<"hashed_password", hash_password("pw1")>>>> \o rest :
        e \in {<<"a">>, <<"A">>, <<"a", "A">>, <<" ">>},
        rest \in {<<>>, <<<<"status", Str("BOGUS")>>>>}}

\* The dicts a caller of update passes
UpdateArgs ==
    {<<<<"email", e>>>> : e \in EmailArgs}
    \cup {<<<<"role", v>>>> : v \in {Str("ADMIN"), Str("BOSS"), Str(""),
                                      Member("UserStatus", "ACTIVE")}}
    \cup {<<<<"status", v>>>> : v \in {Str("SUSPENDED"), Str("BOGUS"),
                                        Member("UserRole", "ADMIN")}}
    \cup {<<<<"email", <<"a">>>>, <<"role", Str("BOSS")>>>>,
          <<<<"role", Str("ADMIN")>>, <<"status", Str("BOGUS")>>>>,
          <<<<"nickname", Str("x")>>, <<"status", Member("UserStatus", "SUSPENDED")>>>>}

Init ==
    /\ store \in Tables
    /\ now = 0
    /\ resp = [op |-> "start"]
    /\ roleSet = [id \in UserIds |-> NoRole]
    /\ request = [r \in Requests |->
                     [pc |-> "start", db |-> NoSession, exc |-> None, raised |-> None]]
    /\ session = [s \in SessionObjects |->
                     [open |-> FALSE, pending |-> FALSE, rolled_back |-> FALSE]]
    /\ conn = NotConnecting
    /\ config = [env |-> [DB_USER |-> "testuser", DB_PASSWORD |-> "testpass123"],
                 cache |-> None, constructed |-> 0, first |-> None]

\* POST /login
LoginRequest ==
    \E username \in RawEmails, password \in Passwords :
        LET out == login(username, password, Session)
        IN  /\ resp' = [op |-> "login", username |-> username, password |-> password,
                        out |-> out, http |-> response(200, out)]
            /\ UNCHANGED <<config, conn, store, now, roleSet, request, session>>

\* an exchange that locks the account it has served
RefreshRequest_locking ==
    \E t \in Tokens :
        LET out == refresh(RefreshToken(t), Session)
        IN  /\ resp' = [op |-> "refresh", token |-> t,
                        out |-> out, http |-> response(201, out)]
            /\ store' = IF out.kind = "return"
                         THEN [store EXCEPT ![out.value.sub].status = "LOCKED"]
                         ELSE store
            /\ UNCHANGED <<config, conn, now, roleSet, request, session>>

\* POST /refresh
RefreshRequest ==
    \E t \in Tokens :
        LET out == refresh(RefreshToken(t), Session)
        IN  /\ resp' = [op |-> "refresh", token |-> t,
                        out |-> out, http |-> response(201, out)]
            /\ UNCHANGED <<config, conn, store, now, roleSet, request, session>>

\* Depends(get_current_user) on a request with a bearer token
ResolvePrincipal ==
    \E t \in Tokens :
        /\ resp' = [op |-> "resolve", token |-> t, out |-> get_current_user(t, Session)]
        /\ UNCHANGED <<config, conn, store, now, roleSet, request, session>>

\* POST /register, under
\* Depends(require_authorization(APIEndpoint.REGISTER_USER))
RegisterRequest ==
    \E t \in Tokens, user_in \in UserCreates :
        LET done == register(t, user_in, Session, uuid4)
        IN  /\ resp' = [op |-> "register", token |-> t, endpoint |-> "register_user",
                        user_in |-> user_in,
                        states |-> request_states("register_user", t, Session),
                        registered |-> done.store # store,
                        out |-> done.out,
                        http |-> response(201, done.out)]
            /\ store' = done.store
            /\ UNCHANGED <<config, conn, now, roleSet, request, session>>

\* GET /users; the query of the service succeeds or the database fails
GetAllUsersRequest ==
    \E fault \in {None} \cup DatabaseFaults :
        LET out == get_all_users(Session, fault)
        IN  /\ resp' = [op |-> "get_all_users", fault |-> fault,
                        out |-> out, http |-> response(200, out)]
            /\ UNCHANGED <<config, conn, store, now, roleSet, request, session>>

\* A route raises an exception of the taxonomy and the application
\* translates it
TranslateException ==
    \E exc \in RaisedExceptions :
        /\ resp' = [op |-> "raise", out |-> Raise(exc), http |-> exception_handler(exc)]
        /\ UNCHANGED <<config, conn, store, now, roleSet, request, session>>

\* The checker of an endpoint applied to a principal of the table
AuthorizationCheck ==
    \E id \in UserIds, endpoint \in APIEndpoint :
        /\ store[id] # None
        /\ resp' = [op |-> "check", user |-> store[id], endpoint |-> endpoint,
                    out |-> authorization_checker(endpoint, store[id])]
        /\ UNCHANGED <<config, conn, store, now, roleSet, request, session>>

UpdateRole ==
    \E id \in UserIds, role \in RoleArgs :
        LET done == update_role(Session, id, role)
        IN  /\ store' = done.store
            /\ resp' = [op |-> "update_role", id |-> id, role |-> role,
                        out |-> done.out, changed |-> done.store # store]
            /\ roleSet' = IF /\ role.type = "UserRole"
                             /\ store[id] # None
                             /\ store[id].role # role.value
                          THEN [roleSet EXCEPT ![id] = role.value]
                          ELSE roleSet
        /\ UNCHANGED <<config, conn, now, request, session>>

Delete ==
    \E id \in UserIds :
        /\ store' = delete(Session, id)
        /\ resp' = [op |-> "delete", id |-> id]
        /\ roleSet' = [roleSet EXCEPT ![id] = NoRole]
        /\ UNCHANGED <<config, conn, now, request, session>>

\* UserRepository.create
CreateCall ==
    \E id \in {u \in UserIds : store[u] = None}, email \in EmailArgs \cup {<<>>},
       rest \in CreateArgs :
        LET obj_in == <<<<"email", email>>, <<"hashed_password", hash_password("pw1")>>>>
                      \o rest
            done == create(Session, obj_in, id)
        IN  /\ store' = done.store
            /\ resp' = [op |-> "create", obj_in |-> obj_in,
                        out |-> done.out, changed |-> done.store # store]
            /\ UNCHANGED <<config, conn, now, roleSet, request, session>>

\* UserRepository.create_multi, with a list of one or two dicts; alone
\* tells for each dict what create would have come to with it alone
CreateMultiCall ==
    \E objects_in \in {<<a>> : a \in MultiArgs} \cup {<<a, b>> : a \in MultiArgs, b \in MultiArgs} :
        \E ids \in [DOMAIN objects_in -> {u \in UserIds : store[u] = None}] :
            LET done == create_multi(Session, objects_in, ids)
            IN  /\ \A i, j \in DOMAIN ids : i # j => ids[i] # ids[j]
                /\ store' = done.store
                /\ resp' = [op |-> "create_multi", objects_in |-> objects_in, ids |-> ids,
                            alone |-> [i \in DOMAIN objects_in |->
                                          create(Session, objects_in[i], ids[i]).out.kind],
                            out |-> done.out, changed |-> done.store # store]
                /\ UNCHANGED <<config, conn, now, roleSet, request, session>>

\* UserRepository.get_manageable_users
GetManageableUsers ==
    \E manager_role \in ManagerRoleArgs :
        /\ resp' = [op |-> "get_manageable_users", manager_role |-> manager_role,
                    out |-> get_manageable_users(Session, manager_role)]
        /\ UNCHANGED <<config, conn, store, now, roleSet, request, session>>

\* UserRepository.update_by_id
UpdateCall ==
    \E id \in UserIds, obj_in \in UpdateArgs :
        LET done == update_by_id(Session, id, obj_in)
        IN  /\ store' = done.store
            /\ resp' = [op |-> "update", id |-> id, obj_in |-> obj_in,
                        out |-> done.out, changed |-> done.store # store]
            /\ UNCHANGED <<config, conn, now, roleSet, request, session>>

UpdateStatusCall ==
    \E id \in UserIds, status \in StatusArgs :
        LET done == update_status(Session, id, status)
        IN  /\ store' = done.store
            /\ resp' = [op |-> "update_status", id |-> id, status |-> status,
                        out |-> done.out, changed |-> done.store # store]
            /\ UNCHANGED <<config, conn, now, roleSet, request, session>>

BulkUpdateStatusCall ==
    \E user_ids \in SUBSET UserIds \ {{}}, status \in StatusArgs :
        LET done == bulk_update_status(Session, user_ids, status)
        IN  /\ store' = done.store
            /\ resp' = [op |-> "bulk_update_status", user_ids |-> user_ids,
                        status |-> status,
                        out |-> done.out, changed |-> done.store # store]
            /\ UNCHANGED <<config, conn, now, roleSet, request, session>>

GetByEmailCall ==
    \E email \in EmailArgs :
        /\ resp' = [op |-> "get_by_email", email |-> email,
                    out |-> get_by_email(Session, Str(email))]
        /\ UNCHANGED <<config, conn, store, now, roleSet, request, session>>

EmailExistsCall ==
    \E email \in EmailArgs :
        /\ resp' = [op |-> "email_exists", email |-> email,
                    out |-> email_exists(Session, Str(email))]
        /\ UNCHANGED <<config, conn, store, now, roleSet, request, session>>

\* UserRole.get_hierarchical_roles
GetHierarchicalRoles ==
    \E role \in RoleValues :
        /\ resp' = [op |-> "get_hierarchical_roles", role |-> role,
                    out |-> get_hierarchical_roles(role)]
        /\ UNCHANGED <<config, conn, store, now, roleSet, request, session>>

\* UserRole.can_manage
CanManage ==
    \E manager_role \in RoleValues, target_role \in RoleValues :
        /\ resp' = [op |-> "can_manage", manager_role |-> manager_role,
                    target_role |-> target_role,
                    out |-> can_manage(manager_role, target_role)]
        /\ UNCHANGED <<config, conn, store, now, roleSet, request, session>>

\* User.can_manage_user on two principals of the table
CanManageUser ==
    \E self \in UserIds, target_user \in UserIds :
        /\ store[self] # None
        /\ store[target_user] # None
        /\ resp' = [op |-> "can_manage_user", self |-> store[self],
                    target_user |-> store[target_user],
                    out |-> can_manage_user(store[self], store[target_user])]
        /\ UNCHANGED <<config, conn, store, now, roleSet, request, session>>

\* A request starts: get_db creates its session and yields it
GetDbYield ==
    \E r \in Requests, db \in SessionLocal :
        /\ request[r].pc = "start"
        /\ request' = [request EXCEPT ![r].pc = "route", ![r].db = db]
        /\ session' = [session EXCEPT ![db] = NewSession]
        /\ resp' = [op |-> "get_db", request |-> r]
        /\ UNCHANGED <<config, conn, store, now, roleSet>>

\* The route adds to its session a change it has not committed
RouteWrites ==
    \E r \in Requests :
        /\ request[r].pc = "route"
        /\ ~session[request[r].db].pending
        /\ session' = [session EXCEPT ![request[r].db].pending = TRUE]
        /\ resp' = [op |-> "route", request |-> r]
        /\ UNCHANGED <<config, conn, store, now, roleSet, request>>

RouteReturns ==
    \E r \in Requests :
        /\ request[r].pc = "route"
        /\ request' = [request EXCEPT ![r].pc = "exit"]
        /\ resp' = [op |-> "route", request |-> r]
        /\ UNCHANGED <<config, conn, store, now, roleSet, session>>

RouteRaises ==
    \E r \in Requests, exc \in RouteExceptions :
        /\ request[r].pc = "route"
        /\ request' = [request EXCEPT ![r].pc = "exit", ![r].exc = exc]
        /\ resp' = [op |-> "route", request |-> r]
        /\ UNCHANGED <<config, conn, store, now, roleSet, session>>

\* get_db resumes after its yield, in request r
GetDbExitOf(r) ==
    /\ request[r].pc = "exit"
    /\ LET left == get_db_exit(session[request[r].db], request[r].exc)
       IN  /\ session' = [session EXCEPT ![request[r].db] = left.db]
           /\ request' = [request EXCEPT ![r].pc = "done", ![r].raised = left.raised]
    /\ resp' = [op |-> "get_db", request |-> r]
    /\ UNCHANGED <<config, conn, store, now, roleSet>>

GetDbExit == \E r \in Requests : GetDbExitOf(r)

\* The response is sent; the next request of the client starts
RequestEnds ==
    \E r \in Requests :
        /\ request[r].pc = "done"
        /\ request' = [request EXCEPT ![r] =
                          [pc |-> "start", db |-> NoSession, exc |-> None, raised |-> None]]
        /\ resp' = [op |-> "end", request |-> r]
        /\ UNCHANGED <<config, conn, store, now, roleSet, session>>

\* LeaveStatus.is_final
IsFinal ==
    \E status \in LeaveStatusArgs :
        /\ resp' = [op |-> "is_final", status |-> status, out |-> is_final(StrOf(status))]
        /\ UNCHANGED <<config, store, now, roleSet, request, session, conn>>

\* LeaveStatus.can_transition_to
CanTransitionTo ==
    \E from_status \in LeaveStatusArgs, to_status \in LeaveStatusArgs :
        /\ resp' = [op |-> "can_transition_to", from_status |-> from_status,
                    to_status |-> to_status,
                    out |-> can_transition_to(StrOf(from_status), StrOf(to_status))]
        /\ UNCHANGED <<config, store, now, roleSet, request, session, conn>>

\* A leave request is looked at, in whatever status it has
LeaveStarts ==
    \E status \in LeaveStatusValues :
        /\ resp' = [op |-> "leave", chain |-> <<status>>]
        /\ UNCHANGED <<config, store, now, roleSet, request, session, conn>>

\* The leave request takes a transition that can_transition_to accepts
LeaveTransition ==
    \E to_status \in LeaveStatusValues :
        /\ resp.op = "leave"
        /\ Len(resp.chain) < MaxChain
        /\ can_transition_to(resp.chain[Len(resp.chain)], to_status)
        /\ resp' = [op |-> "leave", chain |-> Append(resp.chain, to_status)]
        /\ UNCHANGED <<config, store, now, roleSet, request, session, conn>>

\* The environment changes (monkeypatch.setenv, a new deployment value)
SetEnv ==
    \E key \in DOMAIN EnvValues :
        \E value \in EnvValues[key] :
            /\ config.env[key] # value
            /\ config' = [config EXCEPT !.env[key] = value]
            /\ resp' = [op |-> "setenv", key |-> key, value |-> value]
            /\ UNCHANGED <<store, now, roleSet, request, session, conn>>

\* get_settings()
GetSettings ==
    /\ config.constructed < MaxInstances
    /\ LET got == get_settings(config)
       IN  /\ config' = [got.config EXCEPT
                            !.first = IF config.first = None THEN got.out ELSE @]
           /\ resp' = [op |-> "get_settings", out |-> got.out]
    /\ UNCHANGED <<store, now, roleSet, request, session, conn>>

\* connect_to_database is called
ConnectToDatabase ==
    \E max_retries \in 0..MaxRetries, base_delay \in BaseDelays :
        /\ conn.pc \in {"idle", "done"}
        /\ conn' = connect_to_database(max_retries, base_delay)
        /\ resp' = [op |-> "connect_to_database"]
        /\ UNCHANGED <<config, store, now, roleSet, request, session>>

\* The loop of connect_to_database takes a turn
ConnectAttempt ==
    /\ conn.pc = "loop"
    /\ \E outcome \in AttemptOutcomes : conn' = connect_attempt(conn, outcome)
    /\ resp' = [op |-> "connect_to_database"]
    /\ UNCHANGED <<config, store, now, roleSet, request, session>>

Tick ==
    /\ now < MaxTime
    /\ now' = now + 1
    /\ resp' = [op |-> "tick"]
    /\ UNCHANGED <<config, conn, store, roleSet, request, session>>

Next ==
    \/ LoginRequest
    \/ RefreshRequest
    \/ ResolvePrincipal
    \/ RegisterRequest
    \/ GetAllUsersRequest
    \/ TranslateException
    \/ AuthorizationCheck
    \/ UpdateRole
    \/ Delete
    \/ CreateCall
    \/ CreateMultiCall
    \/ GetManageableUsers
    \/ UpdateCall
    \/ UpdateStatusCall
    \/ BulkUpdateStatusCall
    \/ GetByEmailCall
    \/ EmailExistsCall
    \/ GetHierarchicalRoles
    \/ CanManage
    \/ CanManageUser
    \/ GetDbYield
    \/ RouteWrites
    \/ RouteReturns
    \/ RouteRaises
    \/ GetDbExit
    \/ RequestEnds
    \/ ConnectToDatabase
    \/ ConnectAttempt
    \/ IsFinal
    \/ CanTransitionTo
    \/ LeaveStarts
    \/ LeaveTransition
    \/ SetEnv
    \/ GetSettings
    \/ Tick

Spec == Init /\ [][Next]_vars

\* Logins against every table
NextLogin ==
    \/ LoginRequest
    \/ UpdateRole
    \/ Delete

SpecLogin == Init /\ [][NextLogin]_vars

\* The token paths read no password: one password per row is enough.
InitTokens ==
    /\ Init
    /\ \A id \in UserIds : store[id] # None => store[id].hashed_password = hash_password("pw1")

NextTokens ==
    \/ RefreshRequest
    \/ RegisterRequest
    \/ AuthorizationCheck
    \/ UpdateRole
    \/ Delete
    \/ Tick

SpecTokens == InitTokens /\ [][NextTokens]_vars

\* The role hierarchy
NextRoles ==
    \/ GetHierarchicalRoles
    \/ CanManage
    \/ CanManageUser

SpecRoles == InitTokens /\ [][NextRoles]_vars

\* Concurrent requests and their sessions; the table plays no part
InitSessions ==
    /\ Init
    /\ \A id \in UserIds : store[id] = None

NextSessions ==
    \/ GetDbYield
    \/ RouteWrites
    \/ RouteReturns
    \/ RouteRaises
    \/ GetDbExit
    \/ RequestEnds

\* Once the route has returned or raised, the framework resumes get_db.
SpecSessions ==
    /\ InitSessions
    /\ [][NextSessions]_vars
    /\ \A r \in Requests : WF_vars(GetDbExitOf(r))

\* The responses of the HTTP boundary
NextBoundary ==
    \/ LoginRequest
    \/ RefreshRequest
    \/ GetAllUsersRequest
    \/ TranslateException
    \/ Tick

SpecBoundary == InitTokens /\ [][NextBoundary]_vars

\* The repository operations that write, from tables of workers
InitRepo ==
    /\ InitTokens
    /\ \A id \in UserIds : store[id] # None => store[id].role = "WORKER"

NextRepo ==
    \/ CreateCall
    \/ UpdateCall
    \/ UpdateRole
    \/ UpdateStatusCall
    \/ BulkUpdateStatusCall
    \/ GetByEmailCall
    \/ EmailExistsCall

SpecRepo == InitRepo /\ [][NextRepo]_vars

\* Logins, exchanges and checks of principals whose status changes
NextStatus ==
    \/ LoginRequest
    \/ RefreshRequest
    \/ AuthorizationCheck
    \/ UpdateStatusCall

SpecStatus == InitTokens /\ [][NextStatus]_vars

\* The connection to the database at startup
NextConnect ==
    \/ ConnectToDatabase
    \/ ConnectAttempt

\* A turn of the loop ends: connecting and sleeping take a bounded time.
SpecConnect == InitSessions /\ [][NextConnect]_vars /\ WF_vars(ConnectAttempt)

\* The statuses of a leave request
NextLeave ==
    \/ IsFinal
    \/ CanTransitionTo
    \/ LeaveStarts
    \/ LeaveTransition

SpecLeave == InitSessions /\ [][NextLeave]_vars

\* The settings of the process
NextConfig ==
    \/ SetEnv
    \/ GetSettings

SpecConfig == InitSessions /\ [][NextConfig]_vars

\* Records are created, one at a time and in lists, and deleted
NextCreate ==
    \/ CreateCall
    \/ CreateMultiCall
    \/ Delete

SpecCreate == InitRepo /\ [][NextCreate]_vars

\* The users a role can manage, in tables of every role and status
InitManage ==
    /\ store \in ManagedTables
    /\ now = 0
    /\ resp = [op |-> "start"]
    /\ roleSet = [id \in UserIds |-> NoRole]
    /\ request = [r \in Requests |->
                     [pc |-> "start", db |-> NoSession, exc |-> None, raised |-> None]]
    /\ session = [s \in SessionObjects |->
                     [open |-> FALSE, pending |-> FALSE, rolled_back |-> FALSE]]
    /\ conn = NotConnecting
    /\ config = [env |-> [DB_USER |-> "testuser", DB_PASSWORD |-> "testpass123"],
                 cache |-> None, constructed |-> 0, first |-> None]

NextManage ==
    \/ GetManageableUsers
    \/ CanManageUser

SpecManage == InitManage /\ [][NextManage]_vars

\* The operations that read the table, as time passes
NextReads ==
    \/ LoginRequest
    \/ RefreshRequest
    \/ ResolvePrincipal
    \/ AuthorizationCheck
    \/ Tick

SpecReads == InitTokens /\ [][NextReads]_vars

----------------------------------------------------------------------------
(* Properties *)

\* The rows whose email is the lowercase, trimmed form of an email string
PrincipalsFor(email) ==
    {id \in UserIds : store[id] # None /\ store[id].email = strip(lower(email))}

AuthenticationFailed == AuthenticationException("Invalid email or password")

\* A token that decodes at the current time: signed, with claims, not expired
Decodes(t) ==
    /\ t.form = "jwt"
    /\ t.signed
    /\ t.claims # EmptyDict
    /\ t.claims.exp >= now

\* C1: a login with an email that matches no principal and a login with an
\* existing email and a wrong password both fail with the same
\* AuthenticationFailed error, code and message.
C1_LoginFailsWithAuthenticationFailed ==
    (/\ resp.op = "login"
     /\ EmailStrAccepts(resp.username)
     /\ \/ PrincipalsFor(resp.username) = {}
        \/ \E id \in PrincipalsFor(resp.username) :
              ~verify_password(resp.password, store[id].hashed_password))
    => resp.out = Raise(AuthenticationFailed)

\* C2: a login with the email of an existing principal and its password
\* returns a bearer token that embeds the principal's current role.
C2_LoginIssuesTokenWithRole ==
    (/\ resp.op = "login"
     /\ EmailStrAccepts(resp.username)
     /\ \E id \in PrincipalsFor(resp.username) :
           verify_password(resp.password, store[id].hashed_password))
    => /\ resp.out.kind = "return"
       /\ resp.out.value.token_type = "bearer"
       /\ "role" \in DOMAIN resp.out.value.access_token.claims
       /\ \E id \in PrincipalsFor(resp.username) :
             resp.out.value.access_token.claims.role = store[id].role

C4_ExchangeExpiryIsAnchored ==
    (resp.op = "refresh" /\ resp.out.kind = "return")
    => resp.out.value.exp = resp.token.claims.exp + 7

C4_Witness ==
    /\ resp.op = "refresh"
    /\ resp.out.kind = "return"
    /\ now > 0
    /\ resp.token.claims.exp > now

\* C5: the role an exchange returns is the role the table holds for the
\* principal at the exchange; after update_role changed it, the new role.
C5_ExchangeReturnsCurrentRole ==
    (resp.op = "refresh" /\ resp.out.kind = "return")
    => /\ resp.out.value.sub \in PrincipalsFor(resp.token.claims.sub)
       /\ resp.out.value.role = store[resp.out.value.sub].role
       /\ roleSet[resp.out.value.sub] # NoRole
             => resp.out.value.role = roleSet[resp.out.value.sub]

C5_Witness ==
    /\ resp.op = "refresh"
    /\ resp.out.kind = "return"
    /\ roleSet[resp.out.value.sub] # NoRole
    /\ resp.out.value.role = "MANAGER"

\* C6: the exchange of a signed, unexpired refresh token whose subject has
\* no principal fails with AuthenticationFailed.
C6_ExchangeWithoutPrincipalFails ==
    (/\ resp.op = "refresh"
     /\ Decodes(resp.token)
     /\ PrincipalsFor(resp.token.claims.sub) = {})
    => /\ resp.out.kind = "raise"
       /\ resp.out.exc.cls = "AuthenticationException"

C8_UnresolvedPrincipalIsInvalidToken ==
    (/\ resp.op = "register"
     /\ Decodes(resp.token)
     /\ PrincipalsFor(resp.token.claims.sub) = {})
    => /\ resp.out.kind = "raise"
       /\ resp.out.exc.cls = "InvalidTokenException"

\* The roles the static map lists for an endpoint
Allowlist(endpoint) ==
    IF endpoint \in DOMAIN AUTHORIZATION_MAP
    THEN {AUTHORIZATION_MAP[endpoint][i] : i \in DOMAIN AUTHORIZATION_MAP[endpoint]}
    ELSE {}

\* C9: the check passes, returning the principal unchanged, exactly when
\* the principal's role is listed for the endpoint, and is denied
\* otherwise; register_user and delete_user pass ADMIN alone.
C9_CheckFollowsAllowlist ==
    resp.op = "check"
    => /\ resp.user.role \in Allowlist(resp.endpoint) => resp.out = Return(resp.user)
       /\ resp.user.role \notin Allowlist(resp.endpoint)
             => (resp.out.kind = "raise" /\ resp.out.exc.status_code = 403)
       /\ resp.endpoint \in {"register_user", "delete_user"}
             => (resp.out.kind = "return" <=> resp.user.role = "ADMIN")

C9_Witness ==
    /\ resp.op = "check"
    /\ resp.endpoint = "delete_user"
    /\ resp.user.role = "OWNER"
    /\ resp.out.kind = "raise"

\* C10: a denial is an AuthorizationDenied error with status 403 that
\* carries the required roles and the actual role as structured details.
C10_DenialCarriesRoles ==
    (resp.op = "check" /\ resp.out.kind = "raise")
    => /\ resp.out.exc.status_code = 403
       /\ resp.out.exc.cls = "AuthorizationException"
       /\ resp.out.exc.details =
             [required_roles |-> get_authorized_roles(resp.endpoint),
              actual_role |-> resp.user.role]

\* The states of a protected request, in their order
RequestChain ==
    <<"Unauthenticated", "TokenPresented", "TokenDecoded", "PrincipalResolved">>

\* C11: a request to the protected endpoint passes through Unauthenticated,
\* TokenPresented, TokenDecoded and PrincipalResolved in that order; with a
\* token that decodes and a subject that is a principal it passes through
\* all four and ends in exactly one of Authorized and Denied; and the
\* registration runs only in a request that reached Authorized.
C11_ProtectedRequestReachesADecision ==
    resp.op = "register"
    => /\ \E n \in 2..4 :
             \/ resp.states = SubSeq(RequestChain, 1, n)
             \/ n = 4 /\ resp.states \in {RequestChain \o <<"Authorized">>,
                                          RequestChain \o <<"Denied">>}
       /\ (Decodes(resp.token) /\ PrincipalsFor(resp.token.claims.sub) # {})
             => resp.states \in {RequestChain \o <<"Authorized">>,
                                 RequestChain \o <<"Denied">>}
       /\ resp.registered => resp.states = RequestChain \o <<"Authorized">>

\* The place of a role in the order ADMIN > OWNER > MANAGER > FLOOR_MANAGER > WORKER
Rank(role) == CHOOSE i \in DOMAIN UserRole : UserRole[i] = role

\* C12: get_hierarchical_roles(r) is r followed by every role strictly
\* below r, in the order of the hierarchy: all five roles for ADMIN, WORKER
\* alone for WORKER.
C12_HierarchicalRolesAreTheRolesAtOrBelow ==
    (resp.op = "get_hierarchical_roles" /\ resp.role \in UserRoleValues)
    => /\ resp.out = SubSeq(UserRole, Rank(resp.role), Len(UserRole))
       /\ resp.role = "ADMIN" => resp.out = UserRole
       /\ resp.role = "WORKER" => resp.out = <<"WORKER">>

C12_Witness ==
    /\ resp.op = "get_hierarchical_roles"
    /\ resp.role = "MANAGER"
    /\ resp.out = <<"MANAGER", "FLOOR_MANAGER", "WORKER">>

\* C13: can_manage(m, t) is true exactly when m is strictly above t in the
\* order; it is irreflexive, asymmetric and transitive; ADMIN manages every
\* other role and WORKER manages none.
C13_CanManageIsTheStrictOrder ==
    (/\ resp.op = "can_manage"
     /\ resp.manager_role \in UserRoleValues
     /\ resp.target_role \in UserRoleValues)
    => /\ resp.out = (Rank(resp.manager_role) < Rank(resp.target_role))
       /\ ~can_manage(resp.manager_role, resp.manager_role)
       /\ resp.out => ~can_manage(resp.target_role, resp.manager_role)
       /\ \A r \in UserRoleValues :
             (resp.out /\ can_manage(resp.target_role, r))
                 => can_manage(resp.manager_role, r)
       /\ (resp.manager_role = "ADMIN" /\ resp.target_role # "ADMIN") => resp.out
       /\ resp.manager_role = "WORKER" => ~resp.out

C13_Witness ==
    /\ resp.op = "can_manage"
    /\ resp.manager_role = "OWNER"
    /\ resp.target_role = "FLOOR_MANAGER"
    /\ resp.out

\* C14: a request that has ended has its session closed with no pending
\* change; when the route raised, rollback ran on the session and get_db
\* raised the same exception again; and a request whose route has returned
\* or raised always comes to that end.
C14_SessionsAreReleased ==
    /\ [](\A r \in Requests :
             request[r].pc = "done"
             => /\ ~session[request[r].db].open
                /\ ~session[request[r].db].pending
                /\ request[r].raised = request[r].exc
                /\ request[r].exc # None => session[request[r].db].rolled_back)
    /\ \A r \in Requests :
          (request[r].pc = "exit")
              ~> (request[r].pc = "done" /\ ~session[request[r].db].open)

C14_Witness ==
    \E r \in Requests :
        /\ request[r].pc = "done"
        /\ request[r].exc # None
        /\ session[request[r].db].rolled_back
        /\ ~session[request[r].db].open

\* C15: two requests that are in flight at the same time never hold the
\* same session object.
C15_NoSessionIsShared ==
    \A r1, r2 \in Requests :
        (/\ r1 # r2
         /\ request[r1].pc \in {"route", "exit"}
         /\ request[r2].pc \in {"route", "exit"})
        => request[r1].db # request[r2].db

C15_Witness ==
    /\ \A r \in Requests : request[r].pc = "route"
    /\ \E r \in Requests : session[request[r].db].pending

\* The status each class of the taxonomy carries
TaxonomyStatus ==
    ("AuthenticationException" :> 401) @@ ("InvalidTokenException" :> 401)
    @@ ("TokenExpiredException" :> 401) @@ ("AuthorizationException" :> 403)
    @@ ("NotFoundException" :> 404) @@ ("DuplicateException" :> 409)
    @@ ("ValidationException" :> 422)

\* C16: the response to an exception of the taxonomy has the status the
\* exception carries, which is 401 for AuthenticationFailed, InvalidToken
\* and TokenExpired, 403 for AuthorizationDenied, 404 for NotFound, 409 for
\* DuplicateResource and 422 for ValidationFailed; the error code of
\* TokenExpired differs from the one of InvalidToken.
C16_StatusFollowsErrorKind ==
    (/\ "http" \in DOMAIN resp
     /\ resp.out.kind = "raise"
     /\ resp.out.exc.cls \in MotionMatrixClasses)
    => /\ resp.http.status_code = resp.out.exc.status_code
       /\ resp.out.exc.cls \in DOMAIN TaxonomyStatus
             => resp.http.status_code = TaxonomyStatus[resp.out.exc.cls]
       /\ resp.out.exc.cls = "TokenExpiredException"
             => resp.http.content.error_code = "TOKEN_EXPIRED"
       /\ resp.out.exc.cls = "InvalidTokenException"
             => resp.http.content.error_code = "INVALID_TOKEN"

C16_Witness ==
    /\ resp.op = "raise"
    /\ resp.out.exc.cls = "DuplicateException"
    /\ resp.http.status_code = 409

\* The response that says nothing of the fault
GenericServerError ==
    JSONResponse(500, [error_code |-> "INTERNAL_SERVER_ERROR",
                       message |-> <<"An unexpected error occurred. Please try again later.">>])

\* The classes of the faults no route expects
FaultClasses ==
    {"AttributeError", "RuntimeError", "OperationalError", "IntegrityError"}

\* C17: a request in which an unexpected fault was raised, the failure of
\* the query of get-all-users included, is answered with the generic 500
\* that carries no text of the fault.
C17_FaultsAreAnsweredWithGeneric500 ==
    (/\ "http" \in DOMAIN resp
     /\ \/ resp.op = "get_all_users" /\ resp.fault # None
        \/ resp.out.kind = "raise" /\ resp.out.exc.cls \in FaultClasses)
    => resp.http = GenericServerError

\* C18: a login that fails with AuthenticationFailed is answered with 400
\* and so is a refresh with an invalid or expired token; a successful login
\* is answered with 200 and a successful refresh with 201.
C18_LoginAndRefreshStatuses ==
    /\ (resp.op = "login" /\ resp.out.kind = "return") => resp.http.status_code = 200
    /\ (resp.op = "refresh" /\ resp.out.kind = "return") => resp.http.status_code = 201
    /\ (/\ resp.op = "login"
        /\ resp.out.kind = "raise"
        /\ resp.out.exc.cls = "AuthenticationException")
       => resp.http.status_code = 400
    /\ (resp.op = "refresh" /\ ~Decodes(resp.token)) => resp.http.status_code = 400

\* A value that is no role, a value that is no status
OutsideRoles(v) == v = None \/ StrOf(v) \notin UserRoleValues

OutsideStatuses(v) == v = None \/ StrOf(v) \notin UserStatusValues

\* A dict with a role or a status outside the enum
HasOutsideValue(obj_in) ==
    \E i \in DOMAIN obj_in :
        \/ obj_in[i][1] = "role" /\ OutsideRoles(obj_in[i][2])
        \/ obj_in[i][1] = "status" /\ OutsideStatuses(obj_in[i][2])

\* The last call gave an existing principal (a new one, for create) a role
\* or a status outside the enum
SuppliesOutsideValue ==
    \/ resp.op = "create" /\ HasOutsideValue(resp.obj_in)
    \/ resp.op = "update" /\ store[resp.id] # None /\ HasOutsideValue(resp.obj_in)
    \/ resp.op = "update_role" /\ store[resp.id] # None /\ OutsideRoles(resp.role)
    \/ resp.op = "update_status" /\ store[resp.id] # None /\ OutsideStatuses(resp.status)
    \/ /\ resp.op = "bulk_update_status"
       /\ \E id \in resp.user_ids : store[id] # None
       /\ OutsideStatuses(resp.status)

\* C19: after every create, update, update_role, update_status and
\* bulk_update_status each stored role is one of the five roles and each
\* stored status one of the five statuses; a call that supplies a value
\* outside the set raises and leaves the table as it was.
C19_RolesAndStatusesStayInTheirEnums ==
    /\ \A id \in UserIds :
          store[id] # None
          => /\ store[id].role \in UserRoleValues
             /\ store[id].status \in UserStatusValues
    /\ SuppliesOutsideValue => (resp.out.kind = "raise" /\ ~resp.changed)

C19_Witness ==
    /\ resp.op = "bulk_update_status"
    /\ resp.status = Member("UserRole", "ADMIN")
    /\ \E id \in resp.user_ids : store[id] # None
    /\ resp.out.kind = "raise"

\* C20: every stored email is its own lowercase, trimmed form; get_by_email
\* returns the principal whose email is the lowercase, trimmed form of the
\* argument (None when there is none) and email_exists tells whether there
\* is one, so every case variant of a stored email finds its principal.
C20_EmailsAreStoredAndComparedNormalised ==
    /\ \A id \in UserIds :
          store[id] # None => store[id].email = strip(lower(store[id].email))
    /\ resp.op = "get_by_email"
          => /\ PrincipalsFor(resp.email) = {} => resp.out = Return(None)
             /\ \A id \in PrincipalsFor(resp.email) : resp.out = Return(store[id])
    /\ resp.op = "email_exists"
          => resp.out = Return(PrincipalsFor(resp.email) # {})
    /\ \A id \in UserIds, variant \in EmailArgs :
          (store[id] # None /\ lower(variant) = store[id].email)
              => /\ get_by_email(Session, Str(variant)) = Return(store[id])
                 /\ email_exists(Session, Str(variant)) = Return(TRUE)

C20_Witness ==
    /\ resp.op = "get_by_email"
    /\ resp.email # strip(lower(resp.email))
    /\ resp.out.kind = "return"
    /\ resp.out.value # None
    /\ \E i \in DOMAIN resp.email : resp.email[i] = "A"

\* The operations that only read the table
ReadOps == {"login", "refresh", "resolve", "check"}

C22_OnlyActiveStatusesGetAccess ==
    /\ (resp.op = "login" /\ resp.out.kind = "return")
       => \A id \in PrincipalsFor(resp.username) : is_active(store[id])
    /\ (resp.op = "refresh" /\ resp.out.kind = "return")
       => is_active(store[resp.out.value.sub])
    /\ (resp.op = "check" /\ resp.out.kind = "return")
       => is_active(resp.user)

\* C23: connect_to_database makes at most max_retries attempts and returns;
\* it returns True at the first attempt that connects, tries again only
\* after an OperationalError, sleeping base_delay doubled at each retry,
\* returns False at once after any other error and returns False when
\* max_retries attempts have failed.
C23_ConnectTerminatesWithinMaxRetries ==
    /\ [](LET n == Len(conn.outcomes)
          IN  /\ n <= conn.max_retries
              /\ \A i \in 1..(n - 1) : conn.outcomes[i] = "OperationalError"
              /\ conn.sleeps = [i \in 1..Len(conn.sleeps) |-> conn.base_delay * (2 ^ (i - 1))]
              /\ conn.pc = "loop"
                    => /\ Len(conn.sleeps) = n
                       /\ \A i \in 1..n : conn.outcomes[i] = "OperationalError"
              /\ conn.pc = "done"
                    => /\ Len(conn.sleeps) = (IF n = 0 THEN 0 ELSE n - 1)
                       /\ conn.result = (n > 0 /\ conn.outcomes[n] = "connected")
                       /\ (n > 0 /\ conn.outcomes[n] = "OperationalError")
                             => n = conn.max_retries
                       /\ n = 0 => conn.max_retries = 0)
    /\ (conn.pc = "loop") ~> (conn.pc = "done")

C23_Witness ==
    /\ conn.pc = "done"
    /\ conn.result = TRUE
    /\ conn.max_retries = 5
    /\ conn.sleeps = <<2, 4, 8>>

\* C24: from a status that is_final calls final (APPROVED, REJECTED,
\* CANCELLED) can_transition_to accepts no transition to any status.
C24_FinalStatusesAllowNoChange ==
    (resp.op = "can_transition_to" /\ is_final(StrOf(resp.from_status)))
    => ~resp.out

\* C25: every call of get_settings returns the object the first call
\* returned, with the values it had then, whatever the environment has
\* become; one Settings object is constructed.
C25_GetSettingsIsASingleton ==
    /\ resp.op = "get_settings" => resp.out = config.first
    /\ config.constructed <= 1

C25_Witness ==
    /\ resp.op = "get_settings"
    /\ resp.out.DB_USER # config.env.DB_USER
    /\ resp.out.DB_PASSWORD # config.env.DB_PASSWORD

C27_ManageableUsersFollowTheHierarchy ==
    (resp.op = "get_manageable_users" /\ resp.manager_role.type = "UserRole")
    => /\ resp.out.kind = "return"
       /\ \A id \in UserIds :
             store[id] # None
             => (store[id] \in resp.out.value
                   <=> /\ can_manage(resp.manager_role.value, store[id].role)
                       /\ store[id].status \in {"ACTIVE", "PENDING_PASSWORD_CHANGE"})
       /\ \A u \in resp.out.value :
             /\ \E id \in UserIds : store[id] = u
             /\ Rank(u.role) > Rank(resp.manager_role.value)

C27_Witness ==
    /\ resp.op = "get_manageable_users"
    /\ resp.manager_role = Member("UserRole", "MANAGER")
    /\ store["u1"] # None
    /\ store["u2"] # None
    /\ store["u1"].role = "WORKER"
    /\ store["u1"].status = "PENDING_PASSWORD_CHANGE"
    /\ store["u2"].role = "FLOOR_MANAGER"
    /\ store["u2"].status = "SUSPENDED"
    /\ resp.out = Return({store["u1"]})

\* C28: for an endpoint the static map does not list (update_user,
\* view_users, create_post, delete_post) the list of authorized roles is
\* empty and the check denies every role, ADMIN included.
C28_UnlistedEndpointsDenyEveryRole ==
    /\ APIEndpoint \ DOMAIN AUTHORIZATION_MAP
          = {"update_user", "view_users", "create_post", "delete_post"}
    /\ (resp.op = "check" /\ resp.endpoint \notin DOMAIN AUTHORIZATION_MAP)
       => /\ get_authorized_roles(resp.endpoint) = <<>>
          /\ \A role \in UserRoleValues : ~is_authorized(role, resp.endpoint)
          /\ resp.out.kind = "raise"
          /\ resp.out.exc.status_code = 403

C28_Witness ==
    /\ resp.op = "check"
    /\ resp.endpoint = "view_users"
    /\ resp.user.role = "ADMIN"
    /\ resp.out.kind = "raise"

\* C29: a request to the ADMIN-only endpoint with a token that decodes is
\* decided by the role the table holds for the principal at the request:
\* authorized when that role is ADMIN, denied when it is another role, also
\* when update_role changed the role after the token was issued.
C29_DecisionUsesTheStoredRole ==
    (resp.op = "register" /\ Decodes(resp.token))
    => \A id \in PrincipalsFor(resp.token.claims.sub) :
          /\ store[id].role = "ADMIN"
                => resp.states[Len(resp.states)] = "Authorized"
          /\ store[id].role # "ADMIN"
                => (resp.states[Len(resp.states)] = "Denied" /\ ~resp.registered)
          /\ roleSet[id] # NoRole
                => (resp.states[Len(resp.states)] = "Authorized" <=> roleSet[id] = "ADMIN")

====
